---- MODULE Spec2Model ----
(***************************************************************************)
(* The shift planner: the polling helper and the CSRF lookup of           *)
(* ajax-helpers.js (src/unnamed/part_000), the constraint form of         *)
(* restricciones.js (src/unnamed/part_001), the sidebar, the calendar and *)
(* debounce of main.js, wait-for-it.sh and the container entrypoint       *)
(* (src/unnamed/part_003).                                                *)
(***************************************************************************)
EXTENDS Integers, Sequences, FiniteSets, TLC

(***************************************************************************)
(* Bounds of the model.                                                    *)
(***************************************************************************)
\* Clicks, resizes and reloads followed on the page with the sidebar.
MaxEventos == 8

\* Seconds wait_for is followed for.
MaxSegundos == 4

\* Status requests that may be awaiting their response at the same time
\* (a response may take longer than the interval, so ticks overlap).
MaxInFlight == 3

\* Cookies the browser may hold for the page.
MaxCookies == 2

\* Calls of the network helpers made on one page.
MaxLlamadas == 2

\* Constraint cards of one kind on the page at the same time.
MaxCards == 2

\* Largest length restriccionesState.duras / .blandas may grow to.
MaxIndice == 2

\* Clicks on the previous/next buttons of the calendar that are followed.
MaxNavegaciones == 2

\* Calls of a debounced function that are followed.
MaxPulsaciones == 3

\* Half waits the clock of the debounced function is followed for.
MaxTics == 6

(***************************************************************************)
(* Program constants.                                                      *)
(***************************************************************************)
\* monitorizarEjecucion passes 120 as poll's maxAttempts.
maxAttempts == 120

\* LiveSearch debounces its input handler with a wait of 300 ms.
wait == 300

VARIABLES
    \* ---- AjaxHelper.poll / monitorizarEjecucion ----
    attempts,         \* poll's closure counter
    pollInterval,     \* "armed" until clearInterval(pollInterval), then "cleared"
    inFlight,         \* await this.get(url) continuations not yet resumed
    requests,         \* fetches issued by the timer callback
    onUpdateCalls,    \* invocations of the caller's onUpdate
    onCompleteCalls,  \* invocations of the caller's onComplete
    updatesAtComplete,\* onUpdateCalls at the latest onComplete (0: never called)
    respNoTerminal,   \* responses delivered with a non-terminal estado
    respTerminal,     \* responses delivered with estado COMPLETADA or ERROR
    respFailed,       \* requests that failed (HTTP not ok, transport, bad JSON)
    overlapped,       \* a tick fired while an earlier request was still pending
    \* ---- the document AjaxHelper.getCSRFToken reads ----
    campoCsrf,        \* first element matching [name=csrfmiddlewaretoken]
    metaCsrf,         \* first element matching meta[name="csrf-token"]
    cookieJar,        \* the cookies the browser holds for the page, in order
    tokenObtenido,    \* what the latest getCSRFToken() call returned
    llamadas,         \* the calls of get/post/put/delete/submitForm/loadContent
    \* ---- the constraint form of restricciones.js ----
    restriccionesState, \* lengths of restriccionesState.duras / .blandas
    cardsDuras,       \* the .restriccion-dura cards, in document order
    cardsBlandas,     \* the .restriccion-blanda cards, in document order
    contadores,       \* text of contador-restricciones-duras / -blandas
    camposOcultos,    \* values of restricciones_duras_json / _blandas_json
    retValidar,       \* return of validarRestriccionesFormulario, if it ran last
    retSerializar,    \* return of serializarRestricciones, if it ran last
    enviado,          \* the form has been submitted: the page is being left
    \* ---- Sidebar of main.js ----
    sbColapsado,      \* the sidebar element has the class collapsed
    sbGuardado,       \* localStorage item sidebarCollapsed
    sbEscuchaMovil,   \* setupMobileClose registered its document click listener
    innerWidth,       \* window.innerWidth
    sbEventos,        \* clicks, resizes and reloads so far
    \* ---- wait-for-it.sh ----
    TIMEOUT,          \* the shell variable TIMEOUT after argument parsing
    wComando,         \* arguments are left after -- (a command to exec)
    servicio,         \* "caido" or "arriba": whether host:port accepts connections
    wFase,            \* "esperando", "volvio" (wait_for returned), "ejecutando" or "terminado"
    wSegundos,        \* seconds slept in wait_for
    wExito,           \* a connection test of wait_for returned 0
    \* ---- docker-entrypoint.sh ----
    epEntorno,        \* which services are reachable and which commands succeed
    epComando,        \* "$@": the application command given to the entrypoint
    epPc,             \* position in the script: the step to run next
    epFase,           \* "corriendo", "abortado", "colgado", "ejecutando", "fuera"
    epSalida,         \* exit status of the entrypoint once it aborted
    epIniciados,      \* the steps started so far, in order
    epHechos,         \* the steps that finished with status 0, in order
    \* ---- CalendarioHelper of main.js ----
    currentDate,      \* this.currentDate: year, month (0..11) and day of month
    calMostrado,      \* the year and month the latest render() drew
    calUltima,        \* the latest call: "init", "previousMonth" or "nextMonth"
    calNavegaciones,  \* previousMonth/nextMonth calls so far
    \* ---- a function wrapped by Utils.debounce ----
    reloj,            \* the time, in half waits
    timeout,          \* the closure variable timeout: id of the latest timer (0: undefined)
    timers,           \* the browser's active timers: id, due time, args of the call
    sigId,            \* the id the next setTimeout returns
    ultimaLlamada,    \* time and args of the most recent call of the wrapper
    ultimaEjecucion,  \* time, args and timer of the latest run of func, and how many ran
    corridas          \* runs of func since the most recent call of the wrapper

pollVars ==
    <<attempts, pollInterval, inFlight, requests, onUpdateCalls, onCompleteCalls,
      updatesAtComplete, respNoTerminal, respTerminal, respFailed, overlapped>>

csrfVars ==
    <<campoCsrf, metaCsrf, cookieJar, tokenObtenido, llamadas>>

formVars ==
    <<restriccionesState, cardsDuras, cardsBlandas, contadores, camposOcultos,
      retValidar, retSerializar, enviado>>

sidebarVars ==
    <<sbColapsado, sbGuardado, sbEscuchaMovil, innerWidth, sbEventos>>

waitVars ==
    <<TIMEOUT, wComando, servicio, wFase, wSegundos, wExito>>

entryVars ==
    <<epEntorno, epComando, epPc, epFase, epSalida, epIniciados, epHechos>>

\* The pages and the wait script, seen from the other components.
webVars ==
    <<pollVars, csrfVars, formVars, sidebarVars, waitVars>>

\* The components that came after them, seen from the pages.
calVars ==
    <<currentDate, calMostrado, calUltima, calNavegaciones>>

debVars ==
    <<reloj, timeout, timers, sigId, ultimaLlamada, ultimaEjecucion, corridas>>

restoVars ==
    <<entryVars, calVars, debVars>>

vars ==
    <<pollVars, csrfVars, formVars, sidebarVars, waitVars, restoVars>>

(***************************************************************************)
(* JavaScript values.  A string is the sequence of its characters; null    *)
(* and undefined are one-element sequences no string can equal.            *)
(***************************************************************************)
JsNull == <<"null">>

JsUndefined == <<"undefined">>

\* The operand test of ||: undefined, null and '' are falsy.
Truthy(v) ==
    v \notin {JsNull, JsUndefined, <<>>}

\* a || b
JsOr(a, b) ==
    IF Truthy(a) THEN a ELSE b

\* s.substring(desde) and s.substring(0, hasta), indices clamped as JS does.
SubstringDesde(s, desde) ==
    SubSeq(s, (IF desde > Len(s) THEN Len(s) ELSE desde) + 1, Len(s))

SubstringHasta(s, hasta) ==
    SubSeq(s, 1, IF hasta > Len(s) THEN Len(s) ELSE hasta)

\* s.trim(): leading and trailing blanks removed.
RECURSIVE TrimIzq(_)
TrimIzq(s) ==
    IF s # <<>> /\ Head(s) = " " THEN TrimIzq(Tail(s)) ELSE s

RECURSIVE TrimDer(_)
TrimDer(s) ==
    IF s # <<>> /\ s[Len(s)] = " " THEN TrimDer(SubSeq(s, 1, Len(s) - 1)) ELSE s

Trim(s) ==
    TrimDer(TrimIzq(s))

\* s.split(';'): the pieces between the separators, empty pieces kept.
RECURSIVE SplitDesde(_, _, _)
SplitDesde(s, sep, pieza) ==
    IF s = <<>> THEN <<pieza>>
    ELSE IF Head(s) = sep THEN <<pieza>> \o SplitDesde(Tail(s), sep, <<>>)
    ELSE SplitDesde(Tail(s), sep, Append(pieza, Head(s)))

Split(s, sep) ==
    SplitDesde(s, sep, <<>>)

\* decodeURIComponent on the escapes the cookies of the model use.
RECURSIVE DecodeURIComponent(_)
DecodeURIComponent(s) ==
    IF s = <<>> THEN <<>>
    ELSE IF Len(s) >= 3 /\ SubSeq(s, 1, 3) = <<"%", "3", "B">>
         THEN <<";">> \o DecodeURIComponent(SubSeq(s, 4, Len(s)))
    ELSE IF Len(s) >= 3 /\ SubSeq(s, 1, 3) = <<"%", "2", "0">>
         THEN <<" ">> \o DecodeURIComponent(SubSeq(s, 4, Len(s)))
    ELSE <<Head(s)>> \o DecodeURIComponent(Tail(s))

(***************************************************************************)
(* AjaxHelper.getCSRFToken / getCookie                                     *)
(***************************************************************************)
\* The cookie name getCSRFToken asks getCookie for: 'csrftoken'.
NombreCookieCsrf == <<"c", "s", "r", "f", "t", "o", "k", "e", "n">>

\* An element the page lacks, and one it has with the given value/content.
SinElemento == [existe |-> FALSE, valor |-> <<>>]

Elemento(v) == [existe |-> TRUE, valor |-> v]

\* Values the hidden field or the meta tag may carry: none, and two tokens.
ValoresDeElemento == {<<>>, <<"F", "1">>, <<"M", "2">>}

\* Cookies a page of the application may hold.
CookiesPosibles ==
    { [nombre |-> NombreCookieCsrf, valor |-> <<"a", "b">>],
      [nombre |-> NombreCookieCsrf, valor |-> <<"a", "%", "3", "B", "b">>],
      [nombre |-> NombreCookieCsrf, valor |-> <<>>],
      [nombre |-> NombreCookieCsrf \o <<"2">>, valor |-> <<"y">>],
      [nombre |-> <<"x">> \o NombreCookieCsrf, valor |-> <<"z">>],
      [nombre |-> <<"s", "i", "d">>, valor |-> <<"c", "s", "r", "f", "t", "o", "k", "e", "n">>] }

\* The getter document.cookie: 'name=value' pairs joined by '; '.
RECURSIVE DocumentCookie(_)
DocumentCookie(jar) ==
    IF jar = <<>> THEN <<>>
    ELSE Head(jar).nombre \o <<"=">> \o Head(jar).valor
         \o (IF Tail(jar) = <<>> THEN <<>> ELSE <<";", " ">> \o DocumentCookie(Tail(jar)))

\* element?.value
ValorOpcional(el) ==
    IF el.existe THEN el.valor ELSE JsUndefined

\* The for loop of getCookie over the split pieces, from piece i on.
RECURSIVE BuscarCookie(_, _, _)
BuscarCookie(cookies, name, i) ==
    IF i > Len(cookies) THEN JsNull
    ELSE LET cookie == Trim(cookies[i]) IN
         IF SubstringHasta(cookie, Len(name) + 1) = name \o <<"=">>
         THEN DecodeURIComponent(SubstringDesde(cookie, Len(name) + 1))
         ELSE BuscarCookie(cookies, name, i + 1)

\* (mutant) the name is matched without the '=' that ends it.
getCookiePrefijo(documentCookie, name) ==
    IF documentCookie # <<>>
    THEN LET cookies == Split(documentCookie, ";")
             hit == {i \in 1..Len(cookies) :
                       SubstringHasta(Trim(cookies[i]), Len(name)) = name}
         IN IF hit = {} THEN JsNull
            ELSE LET i == CHOOSE k \in hit : \A j \in hit : k <= j
                 IN DecodeURIComponent(SubstringDesde(Trim(cookies[i]), Len(name) + 1))
    ELSE JsNull

\* getCookie(name) on the given document.cookie.
getCookie(documentCookie, name) ==
    IF documentCookie # <<>>
    THEN BuscarCookie(Split(documentCookie, ";"), name, 1)
    ELSE JsNull

\* getCSRFToken(): field value || meta content || getCookie('csrftoken').
getCSRFToken(campo, meta, documentCookie) ==
    JsOr(JsOr(ValorOpcional(campo), ValorOpcional(meta)),
         getCookie(documentCookie, NombreCookieCsrf))

\* Marks that getCSRFToken has not been called yet.
SinLlamar == <<"sin llamar">>

\* Sequences of at most n elements of S.
SeqHasta(S, n) ==
    UNION {[1..k -> S] : k \in 0..n}

InitCsrf ==
    /\ campoCsrf \in {SinElemento} \cup {Elemento(v) : v \in ValoresDeElemento}
    /\ metaCsrf \in {SinElemento} \cup {Elemento(v) : v \in ValoresDeElemento}
    /\ cookieJar \in SeqHasta(CookiesPosibles, MaxCookies)
    /\ tokenObtenido = SinLlamar
    /\ llamadas = <<>>

\* A page without token sources, for the runs that never ask for the token.
CsrfEnReposo ==
    /\ campoCsrf = SinElemento
    /\ metaCsrf = SinElemento
    /\ cookieJar = <<>>
    /\ tokenObtenido = SinLlamar
    /\ llamadas = <<>>

\* A call of AjaxHelper.getCSRFToken().
LlamarGetCSRFToken ==
    /\ tokenObtenido' = getCSRFToken(campoCsrf, metaCsrf, DocumentCookie(cookieJar))
    /\ UNCHANGED <<campoCsrf, metaCsrf, cookieJar, llamadas>>
    /\ UNCHANGED <<pollVars, formVars, sidebarVars, waitVars, restoVars>>

(***************************************************************************)
(* AjaxHelper.get / post / put / delete / submitForm / loadContent         *)
(***************************************************************************)
Helpers == {"get", "post", "put", "delete", "submitForm", "loadContent"}

\* The helpers that send a mutating request (POST, PUT, DELETE).
HelpersQueMutan == {"post", "put", "delete", "submitForm"}

\* A header value as fetch sends it: the headers object is converted to
\* strings, so null travels as the text null.
ByteString(v) ==
    IF v = JsNull THEN <<"n", "u", "l", "l">>
    ELSE IF v = JsUndefined THEN <<"u", "n", "d", "e", "f", "i", "n", "e", "d">>
    ELSE v

\* Header values the helpers write as literals.
ApplicationJson == <<"application/json">>

XMLHttpRequest == <<"XMLHttpRequest">>

\* (mutant) delete sends no X-CSRFToken header.
CabecerasDeleteSinToken(helper, token) ==
    CASE helper = "get" ->
           [n \in {"Content-Type", "X-Requested-With"} |->
              IF n = "Content-Type" THEN ApplicationJson ELSE XMLHttpRequest]
      [] helper \in {"post", "put"} ->
           [n \in {"Content-Type", "X-CSRFToken", "X-Requested-With"} |->
              IF n = "Content-Type" THEN ApplicationJson
              ELSE IF n = "X-CSRFToken" THEN ByteString(token) ELSE XMLHttpRequest]
      [] helper = "submitForm" ->
           [n \in {"X-CSRFToken", "X-Requested-With"} |->
              IF n = "X-CSRFToken" THEN ByteString(token) ELSE XMLHttpRequest]
      [] OTHER ->
           [n \in {"X-Requested-With"} |-> XMLHttpRequest]

\* The headers option each helper passes to fetch, token being the value of
\* this.getCSRFToken() where the helper evaluates it.
Cabeceras(helper, token) ==
    CASE helper = "get" ->
           [n \in {"Content-Type", "X-Requested-With"} |->
              IF n = "Content-Type" THEN ApplicationJson ELSE XMLHttpRequest]
      [] helper \in {"post", "put"} ->
           [n \in {"Content-Type", "X-CSRFToken", "X-Requested-With"} |->
              IF n = "Content-Type" THEN ApplicationJson
              ELSE IF n = "X-CSRFToken" THEN ByteString(token) ELSE XMLHttpRequest]
      [] helper \in {"delete", "submitForm"} ->
           [n \in {"X-CSRFToken", "X-Requested-With"} |->
              IF n = "X-CSRFToken" THEN ByteString(token) ELSE XMLHttpRequest]
      [] OTHER ->
           [n \in {"X-Requested-With"} |-> XMLHttpRequest]

\* The HTTP method of the request each helper issues.
Metodo(helper) ==
    CASE helper \in {"post", "submitForm"} -> "POST"
      [] helper = "put" -> "PUT"
      [] helper = "delete" -> "DELETE"
      [] OTHER -> "GET"

\* What may come back for a request: the transport fails (fetch rejects), a
\* response whose status is no success, a success with a JSON body, and a
\* success whose body is no JSON.
Respuestas == {"transporte", "status", "exito", "exitoNoJson"}

\* (mutant) the status of the response is not looked at.
DesenlaceSinMirarStatus(helper, respuesta) ==
    IF respuesta = "transporte" THEN [estado |-> "rechazada", valor |-> "error"]
    ELSE IF helper = "loadContent" THEN [estado |-> "resuelta", valor |-> "cuerpo"]
    ELSE IF respuesta = "exitoNoJson" THEN [estado |-> "rechazada", valor |-> "error"]
    ELSE [estado |-> "resuelta", valor |-> "cuerpo"]

\* How the promise of a helper settles for a response: the try block throws
\* when fetch rejects, when !response.ok and when response.json() rejects,
\* and the catch block logs and throws again; loadContent reads the body
\* with response.text(), which takes any body.
Desenlace(helper, respuesta) ==
    IF respuesta = "transporte" THEN [estado |-> "rechazada", valor |-> "error"]
    ELSE IF respuesta = "status" THEN [estado |-> "rechazada", valor |-> "error"]
    ELSE IF helper = "loadContent" THEN [estado |-> "resuelta", valor |-> "cuerpo"]
    ELSE IF respuesta = "exitoNoJson" THEN [estado |-> "rechazada", valor |-> "error"]
    ELSE [estado |-> "resuelta", valor |-> "cuerpo"]

\* The pages the helpers are called on: with or without the hidden field,
\* with or without the csrftoken cookie.
InitAjax ==
    /\ campoCsrf \in {SinElemento, Elemento(<<"F", "1">>)}
    /\ metaCsrf = SinElemento
    /\ cookieJar \in {<<>>, <<[nombre |-> NombreCookieCsrf, valor |-> <<"a", "b">>]>>}
    /\ tokenObtenido = SinLlamar
    /\ llamadas = <<>>

\* A call of one of the helpers, up to its await fetch(...): the headers are
\* built, X-CSRFToken from this.getCSRFToken(), and the request is issued.
LlamarHelper ==
    /\ Len(llamadas) < MaxLlamadas
    /\ \E helper \in Helpers :
         LET token == getCSRFToken(campoCsrf, metaCsrf, DocumentCookie(cookieJar)) IN
         /\ llamadas' = Append(llamadas,
                [helper |-> helper, metodo |-> Metodo(helper),
                 cabeceras |-> Cabeceras(helper, token),
                 respuesta |-> "ninguna", estado |-> "pendiente", valor |-> "nada"])
         /\ tokenObtenido' =
                IF "X-CSRFToken" \in DOMAIN Cabeceras(helper, token) THEN token
                ELSE tokenObtenido
    /\ UNCHANGED <<campoCsrf, metaCsrf, cookieJar>>
    /\ UNCHANGED <<pollVars, formVars, sidebarVars, waitVars, restoVars>>

\* The continuation of a pending call after its await fetch(...): the promise
\* the helper returned resolves or rejects.
ResponderHelper ==
    /\ \E i \in 1..Len(llamadas), respuesta \in Respuestas :
         /\ llamadas[i].estado = "pendiente"
         /\ LET d == Desenlace(llamadas[i].helper, respuesta) IN
            llamadas' = [llamadas EXCEPT ![i].respuesta = respuesta,
                                         ![i].estado = d.estado,
                                         ![i].valor = d.valor]
    /\ UNCHANGED <<campoCsrf, metaCsrf, cookieJar, tokenObtenido>>
    /\ UNCHANGED <<pollVars, formVars, sidebarVars, waitVars, restoVars>>

(***************************************************************************)
(* restricciones.js: the catalog                                           *)
(***************************************************************************)
\* A parameter of a hard constraint: its key (the words '_' separates), and
\* the default, min and max of the catalog.
Param(key, def, min, max) ==
    [key |-> key, default |-> def, min |-> min, max |-> max]

\* A parameter key as the catalog writes it: its words joined by '_'.
RECURSIVE Unir(_)
Unir(palabras) ==
    IF Len(palabras) = 1 THEN palabras[1]
    ELSE palabras[1] \o "_" \o Unir(Tail(palabras))

\* restriccionesDurasDefiniciones: constraint key -> its parametros, in order.
restriccionesDurasDefiniciones ==
    [cobertura_minima |-> <<Param(<<"incremento", "fines", "semana">>, 1, 0, 5)>>,
     cobertura_maxima |-> <<>>,
     un_turno_por_dia |-> <<>>,
     descanso_minimo |-> <<Param(<<"horas", "descanso">>, 12, 8, 24)>>,
     horas_semanales_max |-> <<Param(<<"max", "turnos", "semana">>, 5, 1, 7)>>,
     horas_semanales_min |-> <<Param(<<"min", "turnos", "semana">>, 3, 0, 7)>>,
     turnos_consecutivos_max |-> <<Param(<<"max", "dias", "consecutivos">>, 4, 1, 10)>>,
     incompatibilidades |-> <<>>,
     disponibilidad_parcial |-> <<>>,
     dias_libres_obligatorios |-> <<>>,
     dias_libres_minimos_semana |-> <<Param(<<"min", "dias", "libres", "semana">>, 2, 0, 4)>>,
     turnos_nocturnos_consecutivos_max |-> <<Param(<<"max", "noches", "consecutivas">>, 3, 1, 7)>>,
     fines_semana_max |-> <<Param(<<"max", "fines", "semana">>, 1, 0, 4)>>]

\* restriccionesBlandasDefiniciones: constraint key -> peso_default, in tenths
\* (3.0 is 30, 1.5 is 15): every weight of the model is held in tenths.
restriccionesBlandasDefiniciones ==
    [preferencias_turno |-> 30,
     preferencias_dias_libres |-> 20,
     distribucion_equitativa_noches |-> 50,
     minimizar_cambios_turno |-> 15,
     evitar_turnos_aislados |-> 20,
     cumplir_demanda_optima |-> 10,
     balanceo_carga_total |-> 40]

\* The options the user picks in the runs explored ("" is 'Seleccionar...').
TiposDurasElegidos == {"", "cobertura_maxima", "descanso_minimo"}

TiposBlandasElegidos == {"preferencias_turno", "minimizar_cambios_turno"}

(***************************************************************************)
(* Values of inputs.  The value of an input is a string: the empty string  *)
(* or the digits of a number.  parseFloat turns it into a number or NaN,   *)
(* JSON.stringify turns a number into its digits and NaN into null.        *)
(***************************************************************************)
Vacio == [vacio |-> TRUE, n |-> 0]

Txt(n) == [vacio |-> FALSE, n |-> n]

NaN == [nan |-> TRUE, n |-> 0]

Num(n) == [nan |-> FALSE, n |-> n]

\* parseFloat(input.value)
parseFloat(txt) ==
    IF txt.vacio THEN NaN ELSE Num(txt.n)

\* The weight range input: min="0" max="10" step="0.5", in tenths.
pesoMin == 0

pesoMax == 100

pesoStep == 5

\* value="1.0" of both weight inputs of a new soft card, in tenths.
pesoInicial == 10

\* Value sanitization of <input type="range">: a value that is no number
\* becomes the default (the midpoint), a number is clamped to [min, max] and
\* moved to the nearest step (upwards on a tie).
SanearRango(txt) ==
    IF txt.vacio THEN Txt((pesoMin + pesoMax) \div 2)
    ELSE LET c == IF txt.n < pesoMin THEN pesoMin
                  ELSE IF txt.n > pesoMax THEN pesoMax ELSE txt.n
             abajo == pesoMin + ((c - pesoMin) \div pesoStep) * pesoStep
         IN Txt(IF c = abajo THEN c
                ELSE IF 2 * (c - abajo) >= pesoStep /\ abajo + pesoStep <= pesoMax
                     THEN abajo + pesoStep
                ELSE abajo)

\* Value sanitization of <input type="number">: a number is kept as it is,
\* whatever min, max and step say (they only flag the input invalid), and
\* anything else becomes ''.
SanearNumero(txt) ==
    IF txt.vacio THEN Vacio ELSE Txt(txt.n)

(***************************************************************************)
(* restricciones.js: the cards                                             *)
(***************************************************************************)
\* Position of the first card carrying data-index idx (what querySelector
\* with [data-index="idx"] finds), 0 when there is none.
PrimeraCon(cards, idx) ==
    LET hit == {i \in 1..Len(cards) : cards[i].index = idx}
    IN IF hit = {} THEN 0 ELSE CHOOSE i \in hit : \A j \in hit : i <= j

\* cards without the card at position i (elemento.remove()).
Quitar(cards, i) ==
    SubSeq(cards, 1, i - 1) \o SubSeq(cards, i + 1, Len(cards))

\* Length of an array after splice(index, 1).
Splice(len, index) ==
    IF index < len THEN len - 1 ELSE len

\* Length of an array after array[index] = value.
Asignar(len, index) ==
    IF index + 1 > len THEN index + 1 ELSE len

\* The card agregarRestriccion of RestriccionesDuras inserts.
NuevaDura(index) ==
    [index |-> index, tipo |-> "", activa |-> TRUE, params |-> <<>>]

\* The card agregarRestriccion of RestriccionesBlandas inserts.
NuevaBlanda(index) ==
    [index |-> index, tipo |-> "", activa |-> TRUE,
     pesoRange |-> SanearRango(Txt(pesoInicial)),
     peso |-> SanearNumero(Txt(pesoInicial))]

\* `${n || ''}` for a number n of the catalog: 0 is falsy, so it renders the
\* empty string; any other number renders its digits.
NumeroOVacio(n) ==
    IF n = 0 THEN Vacio ELSE Txt(n)

\* The inputs actualizarParametros renders for a type:
\* name="restriccion_dura_param_${index}_${key}" value="${param.default}"
\* min="${param.min || ''}" max="${param.max || ''}".
InputsDe(tipo, index) ==
    LET ps == restriccionesDurasDefiniciones[tipo] IN
    [k \in 1..Len(ps) |->
        [name |-> <<"restriccion", "dura", "param", ToString(index)>> \o ps[k].key,
         value |-> Txt(ps[k].default),
         min |-> NumeroOVacio(ps[k].min),
         max |-> NumeroOVacio(ps[k].max)]]

\* The hidden fields as the page loads: empty, or still holding what an
\* earlier visit of the form left in them.
CamposSinEscribir ==
    [duras |-> [escrito |-> FALSE, json |-> <<>>],
     blandas |-> [escrito |-> FALSE, json |-> <<>>]]

CamposDeAntes ==
    [duras |-> [escrito |-> TRUE,
                json |-> <<[nombre |-> "un_turno_por_dia", activa |-> TRUE,
                            parametros |-> <<>>]>>],
     blandas |-> [escrito |-> TRUE, json |-> <<>>]]

\* The page as DOMContentLoaded leaves it: no card yet.
FormSinCards ==
    /\ restriccionesState = [duras |-> 0, blandas |-> 0]
    /\ cardsDuras = <<>>
    /\ cardsBlandas = <<>>
    /\ contadores = [duras |-> 0, blandas |-> 0]
    /\ retValidar = "ninguno"
    /\ retSerializar = [hay |-> FALSE, duras |-> <<>>, blandas |-> <<>>]
    /\ enviado = FALSE

InitForm ==
    /\ FormSinCards
    /\ camposOcultos = CamposSinEscribir

\* The same page, its hidden fields empty or carrying earlier content.
InitFormEnvio ==
    /\ FormSinCards
    /\ camposOcultos \in {CamposSinEscribir, CamposDeAntes}

\* Any event that is no call of validar/serializar forgets their returns.
SinRetorno ==
    /\ ~enviado
    /\ enviado' = enviado
    /\ retValidar' = "ninguno"
    /\ retSerializar' = [hay |-> FALSE, duras |-> <<>>, blandas |-> <<>>]

\* RestriccionesDuras.agregarRestriccion()
AgregarDura ==
    /\ Len(cardsDuras) < MaxCards
    /\ restriccionesState.duras < MaxIndice
    /\ LET index == restriccionesState.duras IN
         /\ cardsDuras' = Append(cardsDuras, NuevaDura(index))
         /\ restriccionesState' = [restriccionesState EXCEPT !.duras = @ + 1]
         /\ contadores' = [contadores EXCEPT !.duras = restriccionesState.duras + 1]
    /\ SinRetorno
    /\ UNCHANGED <<cardsBlandas, camposOcultos>>
    /\ UNCHANGED <<pollVars, csrfVars, sidebarVars, waitVars, restoVars>>

\* RestriccionesDuras.actualizarParametros(index) on the cards given.
actualizarParametros(cards, index) ==
    LET p == PrimeraCon(cards, index) IN
    IF p = 0 \/ cards[p].tipo = "" THEN cards
    ELSE [cards EXCEPT ![p].params = InputsDe(cards[p].tipo, index)]

\* The user picks one of the options given in the select of the card at
\* position c; its onchange runs
\* RestriccionesDuras.actualizarParametros(index of that card).
SeleccionarTipoDuraEntre(tipos) ==
    /\ \E c \in 1..Len(cardsDuras), tipo \in tipos :
         /\ tipo # cardsDuras[c].tipo
         /\ LET cards == [cardsDuras EXCEPT ![c].tipo = tipo]
                index == cardsDuras[c].index
                p     == PrimeraCon(cards, index)
            IN /\ cardsDuras' = actualizarParametros(cards, index)
               /\ restriccionesState' =
                    IF cards[p].tipo = "" THEN restriccionesState
                    ELSE [restriccionesState EXCEPT !.duras = Asignar(@, index)]
    /\ SinRetorno
    /\ UNCHANGED <<cardsBlandas, contadores, camposOcultos>>
    /\ UNCHANGED <<pollVars, csrfVars, sidebarVars, waitVars, restoVars>>

SeleccionarTipoDura ==
    SeleccionarTipoDuraEntre(TiposDurasElegidos)

\* The same with every option the select offers: 'Seleccionar...' and one
\* per key of the catalog.
SeleccionarCualquierTipoDura ==
    SeleccionarTipoDuraEntre({""} \cup DOMAIN restriccionesDurasDefiniciones)

\* The user flips the Activa switch of the hard card at position c.
ConmutarActivaDura ==
    /\ \E c \in 1..Len(cardsDuras) :
         cardsDuras' = [cardsDuras EXCEPT ![c].activa = ~@]
    /\ SinRetorno
    /\ UNCHANGED <<restriccionesState, cardsBlandas, contadores, camposOcultos>>
    /\ UNCHANGED <<pollVars, csrfVars, sidebarVars, waitVars, restoVars>>

\* The position eliminarRestriccion(index) removes: the first card with that
\* data-index.
CardQueElimina(cards, index) ==
    PrimeraCon(cards, index)

\* The delete button of the hard card at position c:
\* RestriccionesDuras.eliminarRestriccion(index of that card), with the
\* user's answer to confirm().
PulsarEliminarDura(c, confirma) ==
    LET index == cardsDuras[c].index
        p     == CardQueElimina(cardsDuras, index)
    IN IF p # 0 /\ confirma
       THEN /\ cardsDuras' = Quitar(cardsDuras, p)
            /\ restriccionesState' =
                 [restriccionesState EXCEPT !.duras = Splice(@, index)]
            /\ contadores' =
                 [contadores EXCEPT !.duras = Splice(restriccionesState.duras, index)]
       ELSE UNCHANGED <<cardsDuras, restriccionesState, contadores>>

EliminarDura ==
    /\ \E c \in 1..Len(cardsDuras), confirma \in BOOLEAN :
         PulsarEliminarDura(c, confirma)
    /\ SinRetorno
    /\ UNCHANGED <<cardsBlandas, camposOcultos>>
    /\ UNCHANGED <<pollVars, csrfVars, sidebarVars, waitVars, restoVars>>

\* RestriccionesBlandas.agregarRestriccion()
AgregarBlanda ==
    /\ Len(cardsBlandas) < MaxCards
    /\ restriccionesState.blandas < MaxIndice
    /\ LET index == restriccionesState.blandas IN
         /\ cardsBlandas' = Append(cardsBlandas, NuevaBlanda(index))
         /\ restriccionesState' = [restriccionesState EXCEPT !.blandas = @ + 1]
         /\ contadores' = [contadores EXCEPT !.blandas = restriccionesState.blandas + 1]
    /\ SinRetorno
    /\ UNCHANGED <<cardsDuras, camposOcultos>>
    /\ UNCHANGED <<pollVars, csrfVars, sidebarVars, waitVars, restoVars>>

\* RestriccionesBlandas.actualizar(index) on the cards given.
actualizar(cards, index) ==
    LET p == PrimeraCon(cards, index) IN
    IF p = 0 \/ cards[p].tipo = "" THEN cards
    ELSE LET def == restriccionesBlandasDefiniciones[cards[p].tipo] IN
         [cards EXCEPT ![p].peso = SanearNumero(Txt(def)),
                       ![p].pesoRange = SanearRango(Txt(def))]

\* The user picks an option in the select of the soft card at position c; its
\* onchange runs RestriccionesBlandas.actualizar(index of that card).
SeleccionarTipoBlanda ==
    /\ \E c \in 1..Len(cardsBlandas), tipo \in TiposBlandasElegidos :
         /\ tipo # cardsBlandas[c].tipo
         /\ LET cards == [cardsBlandas EXCEPT ![c].tipo = tipo]
                index == cardsBlandas[c].index
                p     == PrimeraCon(cards, index)
            IN /\ cardsBlandas' = actualizar(cards, index)
               /\ restriccionesState' =
                    IF cards[p].tipo = "" THEN restriccionesState
                    ELSE [restriccionesState EXCEPT !.blandas = Asignar(@, index)]
    /\ SinRetorno
    /\ UNCHANGED <<cardsDuras, contadores, camposOcultos>>
    /\ UNCHANGED <<pollVars, csrfVars, sidebarVars, waitVars, restoVars>>

\* The user flips the Activa switch of the soft card at position c.
ConmutarActivaBlanda ==
    /\ \E c \in 1..Len(cardsBlandas) :
         cardsBlandas' = [cardsBlandas EXCEPT ![c].activa = ~@]
    /\ SinRetorno
    /\ UNCHANGED <<restriccionesState, cardsDuras, contadores, camposOcultos>>
    /\ UNCHANGED <<pollVars, csrfVars, sidebarVars, waitVars, restoVars>>

\* RestriccionesBlandas.actualizarPeso(index, valor): the numeric input of
\* the first card with that data-index takes valor.
actualizarPeso(cards, index, valor) ==
    LET p == PrimeraCon(cards, index) IN
    IF p = 0 THEN cards ELSE [cards EXCEPT ![p].peso = SanearNumero(valor)]

\* RestriccionesBlandas.sincronizarPeso(index, valor): the slider of the
\* first card with that data-index takes valor.
sincronizarPeso(cards, index, valor) ==
    LET p == PrimeraCon(cards, index) IN
    IF p = 0 THEN cards ELSE [cards EXCEPT ![p].pesoRange = SanearRango(valor)]

\* Positions the user moves a slider to, and texts typed in a numeric input
\* (7.5, 7.3, 15 and nothing), in tenths.
PosicionesDeslizador == {0, 75}

TextosTecleados == {Vacio, Txt(75), Txt(73), Txt(150)}

\* The user moves the slider of the soft card at position c: the slider takes
\* the value and its oninput runs actualizarPeso(index, this.value).
DeslizarPeso ==
    /\ \E c \in 1..Len(cardsBlandas), v \in PosicionesDeslizador :
         LET cards == [cardsBlandas EXCEPT ![c].pesoRange = SanearRango(Txt(v))]
         IN cardsBlandas' = actualizarPeso(cards, cardsBlandas[c].index, cards[c].pesoRange)
    /\ SinRetorno
    /\ UNCHANGED <<restriccionesState, cardsDuras, contadores, camposOcultos>>
    /\ UNCHANGED <<pollVars, csrfVars, sidebarVars, waitVars, restoVars>>

\* The user types in the numeric input of the soft card at position c: the
\* input takes the text and its onchange runs sincronizarPeso(index, this.value).
TeclearPeso ==
    /\ \E c \in 1..Len(cardsBlandas), txt \in TextosTecleados :
         LET cards == [cardsBlandas EXCEPT ![c].peso = SanearNumero(txt)]
         IN cardsBlandas' = sincronizarPeso(cards, cardsBlandas[c].index, cards[c].peso)
    /\ SinRetorno
    /\ UNCHANGED <<restriccionesState, cardsDuras, contadores, camposOcultos>>
    /\ UNCHANGED <<pollVars, csrfVars, sidebarVars, waitVars, restoVars>>

\* The delete button of the soft card at position c:
\* RestriccionesBlandas.eliminarRestriccion(index of that card).
PulsarEliminarBlanda(c, confirma) ==
    LET index == cardsBlandas[c].index
        p     == CardQueElimina(cardsBlandas, index)
    IN IF p # 0 /\ confirma
       THEN /\ cardsBlandas' = Quitar(cardsBlandas, p)
            /\ restriccionesState' =
                 [restriccionesState EXCEPT !.blandas = Splice(@, index)]
            /\ contadores' =
                 [contadores EXCEPT !.blandas = Splice(restriccionesState.blandas, index)]
       ELSE UNCHANGED <<cardsBlandas, restriccionesState, contadores>>

EliminarBlanda ==
    /\ \E c \in 1..Len(cardsBlandas), confirma \in BOOLEAN :
         PulsarEliminarBlanda(c, confirma)
    /\ SinRetorno
    /\ UNCHANGED <<cardsDuras, camposOcultos>>
    /\ UNCHANGED <<pollVars, csrfVars, sidebarVars, waitVars, restoVars>>

(***************************************************************************)
(* restricciones.js: serialization and validation                          *)
(***************************************************************************)
\* The parametros object filled from the inputs of a card, in order:
\* parametros[input.name.split('_').pop()] = parseFloat(input.value).
RECURSIVE ParametrosDe(_, _)
ParametrosDe(inputs, acc) ==
    IF inputs = <<>> THEN acc
    ELSE LET input == Head(inputs)
             paramName == input.name[Len(input.name)]
         IN ParametrosDe(Tail(inputs), (paramName :> parseFloat(input.value)) @@ acc)

\* What the first forEach pushes for a hard card with a type.
RestriccionDura(card) ==
    [nombre |-> card.tipo, activa |-> card.activa,
     parametros |-> ParametrosDe(card.params, <<>>)]

\* What the second forEach pushes for a soft card with a type.
RestriccionBlanda(card) ==
    [nombre |-> card.tipo, activa |-> card.activa,
     peso |-> parseFloat(card.peso), parametros |-> <<>>]

\* (mutant) cards without a type are pushed too.
RECURSIVE RecorrerTodas(_, _)
RecorrerTodas(cards, dura) ==
    IF cards = <<>> THEN <<>>
    ELSE <<IF dura THEN RestriccionDura(Head(cards)) ELSE RestriccionBlanda(Head(cards))>>
         \o RecorrerTodas(Tail(cards), dura)

\* (mutant) a card whose switch is off is skipped like one without a type.
RECURSIVE RecorrerSoloActivas(_, _)
RecorrerSoloActivas(cards, dura) ==
    IF cards = <<>> THEN <<>>
    ELSE (IF Head(cards).tipo = "" \/ ~Head(cards).activa THEN <<>>
          ELSE <<IF dura THEN RestriccionDura(Head(cards))
                 ELSE RestriccionBlanda(Head(cards))>>)
         \o RecorrerSoloActivas(Tail(cards), dura)

\* A forEach of serializarRestricciones over the cards of one kind:
\* if (!tipoSelect || !tipoSelect.value) return; otherwise push.
RECURSIVE Recorrer(_, _)
Recorrer(cards, dura) ==
    IF cards = <<>> THEN <<>>
    ELSE (IF Head(cards).tipo = "" THEN <<>>
          ELSE <<IF dura THEN RestriccionDura(Head(cards))
                 ELSE RestriccionBlanda(Head(cards))>>)
         \o Recorrer(Tail(cards), dura)

\* serializarRestricciones() on the cards of the page.
serializarRestricciones(duras, blandas) ==
    [duras |-> Recorrer(duras, TRUE), blandas |-> Recorrer(blandas, FALSE)]

\* JSON.stringify of a number: its digits, and null for NaN.
JsonNumero(x) ==
    IF x.nan THEN [null |-> TRUE, n |-> 0] ELSE [null |-> FALSE, n |-> x.n]

\* JSON.stringify(duras) and JSON.stringify(blandas).
JsonDuras(duras) ==
    [k \in 1..Len(duras) |->
        [nombre |-> duras[k].nombre, activa |-> duras[k].activa,
         parametros |-> [n \in DOMAIN duras[k].parametros |->
                            JsonNumero(duras[k].parametros[n])]]]

JsonBlandas(blandas) ==
    [k \in 1..Len(blandas) |->
        [nombre |-> blandas[k].nombre, activa |-> blandas[k].activa,
         peso |-> JsonNumero(blandas[k].peso), parametros |-> <<>>]]

\* A hidden field holding the given JSON text.
Escrito(json) == [escrito |-> TRUE, json |-> json]

\* (mutant) the form is refused only when it has no constraint at all.
validarCuentaTodas(duras, blandas, ocultos) ==
    LET ser == serializarRestricciones(duras, blandas) IN
    IF Len(ser.duras) + Len(ser.blandas) = 0
    THEN [ret |-> "false", ocultos |-> ocultos]
    ELSE [ret |-> "true",
          ocultos |-> [duras |-> Escrito(JsonDuras(ser.duras)),
                       blandas |-> Escrito(JsonBlandas(ser.blandas))]]

\* (mutant) the soft constraints are never written to their hidden field.
validarSinBlandas(duras, blandas, ocultos) ==
    LET ser == serializarRestricciones(duras, blandas) IN
    IF Len(ser.duras) = 0
    THEN [ret |-> "false", ocultos |-> ocultos]
    ELSE [ret |-> "true",
          ocultos |-> [duras |-> Escrito(JsonDuras(ser.duras)),
                       blandas |-> ocultos.blandas]]

\* validarRestriccionesFormulario(): its return value and the hidden fields
\* after it.
validarRestriccionesFormulario(duras, blandas, ocultos) ==
    LET ser == serializarRestricciones(duras, blandas) IN
    IF Len(ser.duras) = 0
    THEN [ret |-> "false", ocultos |-> ocultos]
    ELSE [ret |-> "true",
          ocultos |-> [duras |-> Escrito(JsonDuras(ser.duras)),
                       blandas |-> Escrito(JsonBlandas(ser.blandas))]]

\* The form's submit runs validarRestriccionesFormulario(): false blocks the
\* submission, true lets the form be posted.
Validar ==
    /\ ~enviado
    /\ LET r == validarRestriccionesFormulario(cardsDuras, cardsBlandas, camposOcultos)
       IN /\ retValidar' = r.ret
          /\ camposOcultos' = r.ocultos
          /\ enviado' = (r.ret = "true")
    /\ retSerializar' = [hay |-> FALSE, duras |-> <<>>, blandas |-> <<>>]
    /\ UNCHANGED <<restriccionesState, cardsDuras, cardsBlandas, contadores>>
    /\ UNCHANGED <<pollVars, csrfVars, sidebarVars, waitVars, restoVars>>

\* A call of window.serializarRestricciones().
Serializar ==
    /\ ~enviado
    /\ enviado' = enviado
    /\ LET r == serializarRestricciones(cardsDuras, cardsBlandas)
       IN retSerializar' = [hay |-> TRUE, duras |-> r.duras, blandas |-> r.blandas]
    /\ retValidar' = "ninguno"
    /\ UNCHANGED <<restriccionesState, cardsDuras, cardsBlandas, contadores,
                   camposOcultos>>
    /\ UNCHANGED <<pollVars, csrfVars, sidebarVars, waitVars, restoVars>>

\* Building the form and submitting it: cards of both kinds are added, given
\* a type and deleted, and the form is submitted.
NextForm ==
    \/ AgregarDura
    \/ SeleccionarTipoDura
    \/ EliminarDura
    \/ AgregarBlanda
    \/ SeleccionarTipoBlanda
    \/ EliminarBlanda
    \/ Validar

\* Building the form and serializing it: hard cards are added, given a type,
\* switched and deleted, soft cards are added and given a type, and the form
\* is serialized.
NextSerial ==
    \/ AgregarDura
    \/ SeleccionarTipoDura
    \/ ConmutarActivaDura
    \/ EliminarDura
    \/ AgregarBlanda
    \/ SeleccionarTipoBlanda
    \/ Serializar

\* Adding and deleting cards, and reading them for a submission: no type
\* is ever selected.
NextCards ==
    \/ AgregarDura
    \/ EliminarDura
    \/ AgregarBlanda
    \/ EliminarBlanda
    \/ Validar

\* Switching constraints off and on: cards of both kinds are added, given a
\* type and switched, and the form is serialized or submitted.
NextActiva ==
    \/ AgregarDura
    \/ SeleccionarTipoDura
    \/ ConmutarActivaDura
    \/ AgregarBlanda
    \/ SeleccionarTipoBlanda
    \/ ConmutarActivaBlanda
    \/ Serializar
    \/ Validar

\* Hard cards given any type of the catalog.
NextParametros ==
    \/ AgregarDura
    \/ SeleccionarCualquierTipoDura
    \/ EliminarDura

\* Weighting the soft constraints: soft cards are added, given a type,
\* weighted through the slider and the numeric input, switched and deleted,
\* and the form is serialized.
NextPesos ==
    \/ AgregarBlanda
    \/ SeleccionarTipoBlanda
    \/ ConmutarActivaBlanda
    \/ DeslizarPeso
    \/ TeclearPeso
    \/ EliminarBlanda
    \/ Serializar

(***************************************************************************)
(* AjaxHelper.poll and monitorizarEjecucion                                *)
(***************************************************************************)
\* The estado a successful status response can carry.
Estados == {"PENDIENTE", "EN_PROCESO", "COMPLETADA", "ERROR"}

\* data.estado === 'COMPLETADA' || data.estado === 'ERROR'
EsTerminal(estado) ==
    estado \in {"COMPLETADA", "ERROR"}

\* (mutant) the callback never asks poll to stop.
MonitorCallbackSinParar(estado) ==
    [shouldContinue |-> TRUE,
     calls |-> IF EsTerminal(estado) THEN <<"onUpdate", "onComplete">>
               ELSE <<"onUpdate">>]

\* (mutant) onComplete is called for every response.
MonitorCallbackSiempreCompleta(estado) ==
    [shouldContinue |-> ~EsTerminal(estado),
     calls |-> <<"onUpdate", "onComplete">>]

\* The callback monitorizarEjecucion hands to poll: the calls it makes to the
\* caller's onUpdate and onComplete, in order, and its return value.
MonitorCallback(estado) ==
    [shouldContinue |-> ~EsTerminal(estado),
     calls |-> IF EsTerminal(estado) THEN <<"onUpdate", "onComplete">>
               ELSE <<"onUpdate">>]

\* How many of the first k calls of a callback run are calls of f.
LlamadasA(calls, f, k) ==
    Cardinality({i \in 1..k : calls[i] = f})

\* (mutant) the attempt cap is not tested.
PollDebePararSinTope(shouldContinue, n) ==
    ~shouldContinue

\* if (!shouldContinue || attempts >= maxAttempts) clearInterval(pollInterval)
PollDebeParar(shouldContinue, n) ==
    ~shouldContinue \/ n >= maxAttempts

\* (mutant) the catch branch logs and leaves the timer running.
PollCatchSinCancelar(intervalo) ==
    intervalo

\* catch (error) { ...; clearInterval(pollInterval); }
PollCatch(intervalo) ==
    "cleared"

InitPoll ==
    /\ attempts = 0
    /\ pollInterval = "armed"
    /\ inFlight = 0
    /\ requests = 0
    /\ onUpdateCalls = 0
    /\ onCompleteCalls = 0
    /\ updatesAtComplete = 0
    /\ respNoTerminal = 0
    /\ respTerminal = 0
    /\ respFailed = 0
    /\ overlapped = FALSE

\* The setInterval callback up to its await: attempts++ and the fetch of get().
Tick ==
    /\ pollInterval = "armed"
    /\ inFlight < MaxInFlight
    /\ attempts < maxAttempts + MaxInFlight
    /\ attempts' = attempts + 1
    /\ requests' = requests + 1
    /\ inFlight' = inFlight + 1
    /\ overlapped' = (overlapped \/ inFlight > 0)
    /\ UNCHANGED <<pollInterval, onUpdateCalls, onCompleteCalls, updatesAtComplete,
                   respNoTerminal, respTerminal, respFailed>>
    /\ UNCHANGED <<csrfVars, formVars, sidebarVars, waitVars, restoVars>>

\* The continuation after await this.get(url) resolved with data:
\* callback(data, attempts), then the test that cancels the timer.
RespuestaOk ==
    /\ inFlight > 0
    /\ \E estado \in Estados :
         LET cb == MonitorCallback(estado)
             n  == Len(cb.calls)
             completa == {i \in 1..n : cb.calls[i] = "onComplete"}
         IN
           /\ onUpdateCalls' = onUpdateCalls + LlamadasA(cb.calls, "onUpdate", n)
           /\ onCompleteCalls' = onCompleteCalls + LlamadasA(cb.calls, "onComplete", n)
           /\ updatesAtComplete' =
                IF completa = {} THEN updatesAtComplete
                ELSE onUpdateCalls
                     + LlamadasA(cb.calls, "onUpdate", CHOOSE i \in completa : TRUE)
           /\ respNoTerminal' = respNoTerminal + (IF EsTerminal(estado) THEN 0 ELSE 1)
           /\ respTerminal' = respTerminal + (IF EsTerminal(estado) THEN 1 ELSE 0)
           /\ pollInterval' =
                IF PollDebeParar(cb.shouldContinue, attempts) THEN "cleared"
                ELSE pollInterval
    /\ inFlight' = inFlight - 1
    /\ UNCHANGED <<attempts, requests, respFailed, overlapped>>
    /\ UNCHANGED <<csrfVars, formVars, sidebarVars, waitVars, restoVars>>

\* The continuation after await this.get(url) rejected: the catch branch.
RespuestaFallo ==
    /\ inFlight > 0
    /\ inFlight' = inFlight - 1
    /\ respFailed' = respFailed + 1
    /\ pollInterval' = PollCatch(pollInterval)
    /\ UNCHANGED <<attempts, requests, onUpdateCalls, onCompleteCalls,
                   updatesAtComplete, respNoTerminal, respTerminal, overlapped>>
    /\ UNCHANGED <<csrfVars, formVars, sidebarVars, waitVars, restoVars>>

NextPoll ==
    \/ Tick
    \/ RespuestaOk
    \/ RespuestaFallo

(***************************************************************************)
(* main.js: Sidebar                                                        *)
(***************************************************************************)
\* setupMobileClose registers its listener when window.innerWidth <= 768.
anchoMovil == 768

\* Widths the window takes: a narrow one and a wide one.
Anchos == {anchoMovil, anchoMovil + 1}

\* localStorage: an item that was never set, and one holding a string.
SinItem == [hay |-> FALSE, valor |-> ""]

Item(v) == [hay |-> TRUE, valor |-> v]

\* setItem stores the string form of the value it is given.
BoolComoTexto(b) ==
    IF b THEN "true" ELSE "false"

\* Sidebar.saveState(collapsed): localStorage.setItem('sidebarCollapsed', collapsed)
saveState(collapsed) ==
    Item(BoolComoTexto(collapsed))

\* Sidebar.restoreState(): whether the class collapsed is added.
restoreState(guardado) ==
    guardado.hay /\ guardado.valor = "true"

\* The page after DOMContentLoaded ran Sidebar.init(): the sidebar as the
\* template renders it (not collapsed) unless restoreState collapses it, and
\* the document listener registered on a narrow window.
SidebarTrasInit(guardado, ancho) ==
    [colapsado |-> restoreState(guardado), escuchaMovil |-> (ancho <= anchoMovil)]

InitSidebar ==
    /\ sbGuardado \in {SinItem, Item("true"), Item("false")}
    /\ innerWidth \in Anchos
    /\ sbColapsado = SidebarTrasInit(sbGuardado, innerWidth).colapsado
    /\ sbEscuchaMovil = SidebarTrasInit(sbGuardado, innerWidth).escuchaMovil
    /\ sbEventos = 0

\* A page whose sidebar nobody touches.
SidebarEnReposo ==
    /\ sbGuardado = SinItem
    /\ innerWidth = anchoMovil + 1
    /\ sbColapsado = FALSE
    /\ sbEscuchaMovil = FALSE
    /\ sbEventos = 0

\* One more event on the page with the sidebar.
OtroEvento ==
    /\ sbEventos < MaxEventos
    /\ sbEventos' = sbEventos + 1
    /\ UNCHANGED <<pollVars, csrfVars, formVars, waitVars, restoVars>>

\* A click on #sidebarToggle: the class is toggled and the state saved; the
\* document listener leaves this click alone (e.target === sidebarToggle).
ClickToggle ==
    /\ OtroEvento
    /\ sbColapsado' = ~sbColapsado
    /\ sbGuardado' = saveState(sbColapsado')
    /\ UNCHANGED <<sbEscuchaMovil, innerWidth>>

\* A click elsewhere in the document, inside the sidebar or outside it: the
\* listener of setupMobileClose, when registered, collapses the sidebar for a
\* click outside.
ClickDocumento ==
    /\ OtroEvento
    /\ \E dentro \in BOOLEAN :
         sbColapsado' = IF sbEscuchaMovil /\ ~dentro THEN TRUE ELSE sbColapsado
    /\ UNCHANGED <<sbGuardado, sbEscuchaMovil, innerWidth>>

\* The window is resized: innerWidth changes, the listeners stay as they are.
Redimensionar ==
    /\ OtroEvento
    /\ \E ancho \in Anchos \ {innerWidth} : innerWidth' = ancho
    /\ UNCHANGED <<sbColapsado, sbGuardado, sbEscuchaMovil>>

\* The page is loaded again: Sidebar.init() runs on a fresh document.
Recargar ==
    /\ OtroEvento
    /\ sbColapsado' = SidebarTrasInit(sbGuardado, innerWidth).colapsado
    /\ sbEscuchaMovil' = SidebarTrasInit(sbGuardado, innerWidth).escuchaMovil
    /\ UNCHANGED <<sbGuardado, innerWidth>>

NextSidebar ==
    \/ ClickToggle
    \/ ClickDocumento
    \/ Redimensionar
    \/ Recargar

(***************************************************************************)
(* wait-for-it.sh                                                          *)
(***************************************************************************)
\* TIMEOUT=15, the value when no -t / --timeout is given.
TimeoutPorDefecto == 15

\* TIMEOUT after the argument loop: the default, or the N of -t N /
\* --timeout=N.
TimeoutsDados == {TimeoutPorDefecto, 0, 1, 2}

\* Exit status of the connection test of wait_for.
ResultadoConexion(estadoServicio) ==
    IF estadoServicio = "arriba" THEN 0 ELSE 1

\* (mutant) the loop also ends when TIMEOUT seconds have gone by.
SaleDelBucleConTimeout(result, limite, segundos) ==
    result = 0 \/ (limite > 0 /\ segundos >= limite)

\* The loop of wait_for ends only through: if [ $result -eq 0 ]; then ... break.
SaleDelBucle(result, limite, segundos) ==
    result = 0

\* The script after its argument loop, host and port given, entering wait_for.
InitWait ==
    /\ TIMEOUT \in TimeoutsDados
    /\ wComando \in BOOLEAN
    /\ servicio \in {"caido", "arriba"}
    /\ wFase = "esperando"
    /\ wSegundos = 0
    /\ wExito = FALSE

\* No wait-for-it in the picture: it has run to its end.
WaitEnReposo ==
    /\ TIMEOUT = TimeoutPorDefecto
    /\ wComando = FALSE
    /\ servicio = "arriba"
    /\ wFase = "terminado"
    /\ wSegundos = 0
    /\ wExito = TRUE

\* One pass of the while loop of wait_for: the connection test, then break
\* or sleep 1.
Intento ==
    /\ wFase = "esperando"
    /\ wSegundos < MaxSegundos
    /\ LET result == ResultadoConexion(servicio) IN
         IF SaleDelBucle(result, TIMEOUT, wSegundos)
         THEN /\ wFase' = "volvio"
              /\ wExito' = (wExito \/ result = 0)
              /\ wSegundos' = wSegundos
         ELSE /\ wFase' = wFase
              /\ wExito' = wExito
              /\ wSegundos' = wSegundos + 1
    /\ UNCHANGED <<TIMEOUT, wComando, servicio>>
    /\ UNCHANGED <<pollVars, csrfVars, formVars, sidebarVars, restoVars>>

\* After wait_for returned: exec "$@" when arguments are left, else the end
\* of the script.
TrasEsperar ==
    /\ wFase = "volvio"
    /\ wFase' = IF wComando THEN "ejecutando" ELSE "terminado"
    /\ UNCHANGED <<TIMEOUT, wComando, servicio, wSegundos, wExito>>
    /\ UNCHANGED <<pollVars, csrfVars, formVars, sidebarVars, restoVars>>

\* The service starts accepting connections.
ServicioArranca ==
    /\ servicio = "caido"
    /\ wFase = "esperando"
    /\ servicio' = "arriba"
    /\ UNCHANGED <<TIMEOUT, wComando, wFase, wSegundos, wExito>>
    /\ UNCHANGED <<pollVars, csrfVars, formVars, sidebarVars, restoVars>>

NextWait ==
    \/ Intento
    \/ TrasEsperar
    \/ ServicioArranca

(***************************************************************************)
(* docker-entrypoint.sh (src/unnamed/part_003), which the image runs as    *)
(* its ENTRYPOINT with the application command as arguments, and the       *)
(* argument parsing of the wait-for-it.sh it calls.  A word of a command   *)
(* line is held as its pieces, split at ':' and '='.                       *)
(***************************************************************************)
\* /wait-for-it.sh db:5432 --timeout=60 --strict -- echo "..."
ArgsEsperaDb ==
    << <<"db", ":", "5432">>, <<"--timeout", "=", "60">>, <<"--strict">>,
       <<"--">>, <<"echo">>, <<"PostgreSQL listo">> >>

\* /wait-for-it.sh redis:6379 --timeout=60 --strict -- echo "..."
ArgsEsperaRedis ==
    << <<"redis", ":", "6379">>, <<"--timeout", "=", "60">>, <<"--strict">>,
       <<"--">>, <<"echo">>, <<"Redis listo">> >>

\* The globals of wait-for-it.sh before its arguments are parsed.
SinAnalizar ==
    [HOST |-> "", PORT |-> "", TIMEOUT |-> <<"15">>, QUIET |-> 0,
     sale |-> FALSE, codigo |-> 0, resto |-> <<>>]

\* The while/case loop over the arguments: the globals it leaves, the
\* arguments left for exec, and the exit status when usage ends the script.
\* The patterns are tried in the order of the case.
RECURSIVE Analizar(_, _)
Analizar(args, st) ==
    IF args = <<>> THEN st
    ELSE LET a == Head(args) IN
         IF \E i \in 1..Len(a) : a[i] = ":"
         THEN Analizar(Tail(args), [st EXCEPT !.HOST = a[1], !.PORT = a[Len(a)]])
         ELSE IF a \in {<<"-q">>, <<"--quiet">>}
         THEN Analizar(Tail(args), [st EXCEPT !.QUIET = 1])
         ELSE IF a = <<"-t">>
         THEN IF Len(args) < 2 THEN [st EXCEPT !.TIMEOUT = <<>>, !.resto = args]
              ELSE Analizar(Tail(Tail(args)), [st EXCEPT !.TIMEOUT = args[2]])
         ELSE IF Len(a) >= 2 /\ a[1] = "--timeout" /\ a[2] = "="
         THEN Analizar(Tail(args), [st EXCEPT !.TIMEOUT = SubSeq(a, 3, Len(a))])
         ELSE IF a = <<"--">>
         THEN [st EXCEPT !.resto = Tail(args)]
         ELSE IF a = <<"--help">>
         THEN [st EXCEPT !.sale = TRUE, !.codigo = 0]
         ELSE [st EXCEPT !.sale = TRUE, !.codigo = 1]

\* A command that ended with the given success.
Termina(ok) ==
    [vuelve |-> TRUE, codigo |-> IF ok THEN 0 ELSE 1]

\* A run of wait-for-it.sh with the arguments given, the service reachable
\* or not: usage exits with its code; otherwise wait_for returns only once a
\* connection test returned 0, and the command after -- (an echo) is run.
WaitForIt(args, alcanzable) ==
    LET p == Analizar(args, SinAnalizar) IN
    IF p.sale THEN [vuelve |-> TRUE, codigo |-> p.codigo]
    ELSE IF p.HOST = "" \/ p.PORT = "" THEN [vuelve |-> TRUE, codigo |-> 2]
    ELSE IF alcanzable THEN Termina(TRUE)
    ELSE [vuelve |-> FALSE, codigo |-> 0]

\* The commands of docker-entrypoint.sh, in script order.
Guion ==
    <<"espera_db", "espera_redis", "migrate", "collectstatic", "superusuario",
      "loaddata", "exec">>

\* a || b
ListaO(a, b) ==
    IF a.codigo = 0 THEN a ELSE b

\* What the command of a step does in the environment given.
SalidaDe(paso, entorno) ==
    CASE paso = "espera_db"     -> WaitForIt(ArgsEsperaDb, entorno.db)
      [] paso = "espera_redis"  -> WaitForIt(ArgsEsperaRedis, entorno.redis)
      [] paso = "migrate"       -> Termina(entorno.migrate)
      [] paso = "collectstatic" -> Termina(entorno.collectstatic)
      [] paso = "superusuario"  -> Termina(entorno.superusuario)
      [] paso = "loaddata"      -> ListaO(Termina(entorno.loaddata), Termina(TRUE))

\* (mutant) the script without set -e: a failed command is stepped over.
SinSetE(codigo) ==
    FALSE

\* set -e: a command that returns a status other than 0 ends the script.
AbortaConSetE(codigo) ==
    codigo # 0

\* The environments a container may start in.
Entornos ==
    [db : BOOLEAN, redis : BOOLEAN, migrate : BOOLEAN, collectstatic : BOOLEAN,
     superusuario : BOOLEAN, loaddata : BOOLEAN]

\* The application commands: the CMD of the Dockerfile or an override.
ComandosDados ==
    {<<"gunicorn">>, <<"python", "manage.py", "runserver">>}

\* The container starts: the entrypoint is at its first command.
InitEntrypoint ==
    /\ epEntorno \in Entornos
    /\ epComando \in ComandosDados
    /\ epPc = 1
    /\ epFase = "corriendo"
    /\ epSalida = 0
    /\ epIniciados = <<>>
    /\ epHechos = <<>>

\* No container start in the picture.
EntrypointEnReposo ==
    /\ epEntorno = [db |-> TRUE, redis |-> TRUE, migrate |-> TRUE,
                    collectstatic |-> TRUE, superusuario |-> TRUE,
                    loaddata |-> TRUE]
    /\ epComando = <<"gunicorn">>
    /\ epPc = 1
    /\ epFase = "fuera"
    /\ epSalida = 0
    /\ epIniciados = <<>>
    /\ epHechos = <<>>

\* The next command of the script runs to its end: exec "$@" replaces the
\* shell by the application; any other command either never returns, ends
\* the script through set -e, or lets the script go on.
EjecutarPaso ==
    /\ epFase = "corriendo"
    /\ LET paso == Guion[epPc] IN
         /\ epIniciados' = Append(epIniciados, paso)
         /\ IF paso = "exec"
            THEN /\ epFase' = "ejecutando"
                 /\ UNCHANGED <<epPc, epSalida, epHechos>>
            ELSE LET r == SalidaDe(paso, epEntorno) IN
                 IF ~r.vuelve
                 THEN /\ epFase' = "colgado"
                      /\ UNCHANGED <<epPc, epSalida, epHechos>>
                 ELSE IF AbortaConSetE(r.codigo)
                 THEN /\ epFase' = "abortado"
                      /\ epSalida' = r.codigo
                      /\ UNCHANGED <<epPc, epHechos>>
                 ELSE /\ epPc' = epPc + 1
                      /\ epHechos' = IF r.codigo = 0 THEN Append(epHechos, paso)
                                     ELSE epHechos
                      /\ UNCHANGED <<epFase, epSalida>>
    /\ UNCHANGED <<epEntorno, epComando>>
    /\ UNCHANGED <<webVars, calVars, debVars>>

NextEntrypoint ==
    EjecutarPaso

(***************************************************************************)
(* CalendarioHelper of main.js: the month navigation.  A Date is held as   *)
(* its local year, month (0..11) and day of month.                         *)
(***************************************************************************)
\* Days of a month of the Gregorian calendar.
DiasDelMes(anio, mes) ==
    IF mes = 1
    THEN (IF anio % 4 = 0 /\ (anio % 100 # 0 \/ anio % 400 = 0) THEN 29 ELSE 28)
    ELSE IF mes \in {3, 5, 8, 10} THEN 30 ELSE 31

\* Date.prototype.setMonth(m): the month is brought into 0..11 by carrying
\* into the year, the day of month is kept, and a day past the end of the
\* target month carries into the following month.
setMonth(fecha, m) ==
    LET anio == fecha.anio + (m \div 12)
        mes  == m % 12
        dias == DiasDelMes(anio, mes)
    IN IF fecha.dia <= dias
       THEN [anio |-> anio, mes |-> mes, dia |-> fecha.dia]
       ELSE [anio |-> anio + ((mes + 1) \div 12), mes |-> (mes + 1) % 12,
             dia |-> fecha.dia - dias]

\* render(): the year and month it reads from this.currentDate and draws.
render(fecha) ==
    [anio |-> fecha.anio, mes |-> fecha.mes]

\* The dates new Date() may give: any day of a common or a leap year.
Fechas ==
    {f \in [anio : {2023, 2024}, mes : 0..11, dia : 1..31] :
        f.dia <= DiasDelMes(f.anio, f.mes)}

\* CalendarioHelper.init(containerId, data)
InitCalendario ==
    /\ currentDate \in Fechas
    /\ calMostrado = render(currentDate)
    /\ calUltima = "init"
    /\ calNavegaciones = 0

\* A page without calendar.
CalendarioEnReposo ==
    /\ currentDate = [anio |-> 2024, mes |-> 0, dia |-> 1]
    /\ calMostrado = render(currentDate)
    /\ calUltima = "init"
    /\ calNavegaciones = 0

\* CalendarioHelper.previousMonth()
previousMonth ==
    /\ calNavegaciones < MaxNavegaciones
    /\ currentDate' = setMonth(currentDate, currentDate.mes - 1)
    /\ calMostrado' = render(currentDate')
    /\ calUltima' = "previousMonth"
    /\ calNavegaciones' = calNavegaciones + 1
    /\ UNCHANGED <<webVars, entryVars, debVars>>

\* CalendarioHelper.nextMonth()
nextMonth ==
    /\ calNavegaciones < MaxNavegaciones
    /\ currentDate' = setMonth(currentDate, currentDate.mes + 1)
    /\ calMostrado' = render(currentDate')
    /\ calUltima' = "nextMonth"
    /\ calNavegaciones' = calNavegaciones + 1
    /\ UNCHANGED <<webVars, entryVars, debVars>>

NextCalendario ==
    \/ previousMonth
    \/ nextMonth

(***************************************************************************)
(* Utils.debounce of main.js: the wrapper it returns, the timers it sets   *)
(* and the runs of the wrapped function.                                   *)
(***************************************************************************)
\* The time in ms.
Ahora ==
    reloj * (wait \div 2)

\* The arguments of the calls: what the search box holds at the event.
ArgsDados ==
    {"tu", "tur"}

\* (mutant) clearTimeout that cancels nothing.
clearTimeoutSinEfecto(activos, id) ==
    activos

\* clearTimeout(id): the timer with that id, if still active, is cancelled.
clearTimeout(activos, id) ==
    {t \in activos : t.id # id}

\* Utils.debounce(func, wait) has been called; its wrapper not yet.
InitDebounce ==
    /\ reloj = 0
    /\ timeout = 0
    /\ timers = {}
    /\ sigId = 1
    /\ ultimaLlamada = [hay |-> FALSE, hora |-> 0, args |-> ""]
    /\ ultimaEjecucion = [hay |-> FALSE, hora |-> 0, args |-> "", id |-> 0, n |-> 0]
    /\ corridas = 0

\* executedFunction(...args): clearTimeout(timeout), then
\* timeout = setTimeout(later, wait) with later closing over these args.
executedFunction ==
    /\ sigId <= MaxPulsaciones
    /\ Ahora + wait <= MaxTics * (wait \div 2)
    /\ \E args \in ArgsDados :
         /\ timers' = clearTimeout(timers, timeout)
                        \cup {[id |-> sigId, vence |-> Ahora + wait, args |-> args]}
         /\ ultimaLlamada' = [hay |-> TRUE, hora |-> Ahora, args |-> args]
    /\ timeout' = sigId
    /\ sigId' = sigId + 1
    /\ corridas' = 0
    /\ UNCHANGED <<reloj, ultimaEjecucion>>
    /\ UNCHANGED <<webVars, entryVars, calVars>>

\* A timer that is due fires (it is no longer active) and its later() runs:
\* clearTimeout(timeout), then func(...args) with the args of its call.
later ==
    /\ \E t \in timers :
         /\ Ahora >= t.vence
         /\ timers' = clearTimeout(timers \ {t}, timeout)
         /\ ultimaEjecucion' = [hay |-> TRUE, hora |-> Ahora, args |-> t.args,
                                id |-> t.id, n |-> ultimaEjecucion.n + 1]
    /\ corridas' = corridas + 1
    /\ UNCHANGED <<reloj, timeout, sigId, ultimaLlamada>>
    /\ UNCHANGED <<webVars, entryVars, calVars>>

\* Half a wait goes by; a timer that is due may still not have fired.
PasarTiempo ==
    /\ reloj < MaxTics
    /\ reloj' = reloj + 1
    /\ UNCHANGED <<timeout, timers, sigId, ultimaLlamada, ultimaEjecucion, corridas>>
    /\ UNCHANGED <<webVars, entryVars, calVars>>

NextDebounce ==
    \/ executedFunction
    \/ later
    \/ PasarTiempo

\* The pages and the wait script with nothing of the rest going on.
RestoEnReposo ==
    /\ EntrypointEnReposo
    /\ CalendarioEnReposo
    /\ InitDebounce

\* A page that monitors an execution: its form untouched, no token asked for.
PaginaPoll ==
    /\ InitPoll
    /\ CsrfEnReposo
    /\ InitForm
    /\ SidebarEnReposo
    /\ WaitEnReposo
    /\ RestoEnReposo

SpecPoll ==
    PaginaPoll /\ [][NextPoll]_vars

NextCsrf ==
    LlamarGetCSRFToken

\* A page with any of the token sources, about to send a mutating request.
PaginaCsrf ==
    /\ InitCsrf
    /\ InitPoll
    /\ InitForm
    /\ SidebarEnReposo
    /\ WaitEnReposo
    /\ RestoEnReposo

SpecCsrf ==
    PaginaCsrf /\ [][NextCsrf]_vars

NextAjax ==
    \/ LlamarHelper
    \/ ResponderHelper

\* A page from which the network helpers are called.
PaginaAjax ==
    /\ InitAjax
    /\ InitPoll
    /\ InitForm
    /\ SidebarEnReposo
    /\ WaitEnReposo
    /\ RestoEnReposo

SpecAjax ==
    PaginaAjax /\ [][NextAjax]_vars

\* The page of the constraint form, its hidden fields empty or not.
PaginaEnvio ==
    /\ InitFormEnvio
    /\ InitPoll
    /\ CsrfEnReposo
    /\ SidebarEnReposo
    /\ WaitEnReposo
    /\ RestoEnReposo

SpecForm ==
    PaginaEnvio /\ [][NextForm]_vars

\* The page of the constraint form as it loads.
PaginaForm ==
    /\ InitForm
    /\ InitPoll
    /\ CsrfEnReposo
    /\ SidebarEnReposo
    /\ WaitEnReposo
    /\ RestoEnReposo

SpecSerial ==
    PaginaForm /\ [][NextSerial]_vars

SpecPesos ==
    PaginaForm /\ [][NextPesos]_vars

SpecParametros ==
    PaginaForm /\ [][NextParametros]_vars

SpecActiva ==
    PaginaForm /\ [][NextActiva]_vars

SpecCards ==
    PaginaEnvio /\ [][NextCards]_vars

\* A page with the sidebar.
PaginaSidebar ==
    /\ InitSidebar
    /\ InitPoll
    /\ CsrfEnReposo
    /\ InitForm
    /\ WaitEnReposo
    /\ RestoEnReposo

SpecSidebar ==
    PaginaSidebar /\ [][NextSidebar]_vars

\* The container start: wait-for-it runs, no page is open yet.
ArranqueWait ==
    /\ InitWait
    /\ InitPoll
    /\ CsrfEnReposo
    /\ InitForm
    /\ SidebarEnReposo
    /\ RestoEnReposo

SpecWait ==
    ArranqueWait /\ [][NextWait]_vars

\* The container start: no page is open yet.
ArranqueEntrypoint ==
    /\ InitEntrypoint
    /\ InitPoll
    /\ CsrfEnReposo
    /\ InitForm
    /\ SidebarEnReposo
    /\ WaitEnReposo
    /\ CalendarioEnReposo
    /\ InitDebounce

SpecEntrypoint ==
    ArranqueEntrypoint /\ [][NextEntrypoint]_vars

\* The shell goes on to its next command.
FairSpecEntrypoint ==
    SpecEntrypoint /\ WF_vars(EjecutarPaso)

\* The pages idle, as the calendar and the search box see them.
WebEnReposo ==
    /\ InitPoll
    /\ CsrfEnReposo
    /\ InitForm
    /\ SidebarEnReposo
    /\ WaitEnReposo

\* A page with the calendar.
PaginaCalendario ==
    /\ InitCalendario
    /\ WebEnReposo
    /\ EntrypointEnReposo
    /\ InitDebounce

SpecCalendario ==
    PaginaCalendario /\ [][NextCalendario]_vars

\* A page with a debounced handler.
PaginaDebounce ==
    /\ InitDebounce
    /\ WebEnReposo
    /\ EntrypointEnReposo
    /\ CalendarioEnReposo

SpecDebounce ==
    PaginaDebounce /\ [][NextDebounce]_vars

\* Time goes by and a timer that is due does fire.
FairSpecDebounce ==
    SpecDebounce /\ WF_vars(PasarTiempo) /\ WF_vars(later)

\* The timer fires while it is armed, and every issued request is answered.
FairSpecPoll ==
    SpecPoll /\ WF_vars(Tick) /\ WF_vars(RespuestaOk \/ RespuestaFallo)

(***************************************************************************)
(* Claims about polling                                                    *)
(***************************************************************************)
\* C1: when n non-terminal responses are followed by one terminal response,
\* no request failed and every response arrived before the next tick, then
\* onUpdate ran n+1 times, onComplete ran once and after the (n+1)-th
\* onUpdate, n+1 <= 120, the timer is cancelled and exactly n+1 requests
\* have been issued (none is issued after the terminal response).
C1_SecuenciaTerminal ==
    (respTerminal = 1 /\ respFailed = 0 /\ ~overlapped) =>
        /\ respNoTerminal + 1 <= maxAttempts
        /\ onUpdateCalls = respNoTerminal + 1
        /\ onCompleteCalls = 1
        /\ updatesAtComplete = respNoTerminal + 1
        /\ pollInterval = "cleared"
        /\ requests = respNoTerminal + 1
        /\ inFlight = 0

\* PENDIENTE x3 then COMPLETADA, each answered before the next tick.
C1_Witness ==
    /\ respNoTerminal = 3 /\ respTerminal = 1 /\ respFailed = 0 /\ ~overlapped
    /\ onUpdateCalls = 4 /\ onCompleteCalls = 1 /\ pollInterval = "cleared"

\* C7: one monitorizarEjecucion call never issues more than 120 status
\* requests, however long the responses take.
C7_TopeDePeticiones ==
    requests <= maxAttempts

\* C8: if every request is eventually answered, the timer is eventually
\* cancelled for good, and it is only ever cancelled because a terminal
\* estado was received, a request failed or the attempt cap was reached.
C8_TemporizadorSeCancela ==
    /\ <>[](pollInterval = "cleared")
    /\ [](pollInterval = "cleared" =>
            (respTerminal > 0 \/ respFailed > 0 \/ attempts >= maxAttempts))

\* The timer cancelled by the cap alone: only non-terminal responses.
C8_Witness ==
    /\ pollInterval = "cleared" /\ attempts >= maxAttempts
    /\ respTerminal = 0 /\ respFailed = 0 /\ inFlight = 0

\* C9: the step in which a request fails cancels the timer and calls neither
\* onUpdate nor onComplete, and once a request has failed no further request
\* is issued and the timer stays cancelled (no retry).
C9_FalloDetienePolling ==
    [][ /\ (respFailed' # respFailed =>
              /\ pollInterval' = "cleared"
              /\ onUpdateCalls' = onUpdateCalls
              /\ onCompleteCalls' = onCompleteCalls)
        /\ (respFailed > 0 =>
              /\ requests' = requests
              /\ pollInterval' = "cleared") ]_vars

\* A request failed after two non-terminal responses had been handled.
C9_Witness ==
    respFailed = 1 /\ respNoTerminal = 2 /\ pollInterval = "cleared"

(***************************************************************************)
(* Claims about getCSRFToken                                               *)
(***************************************************************************)
\* The cookies of the jar whose name is exactly csrftoken, by position.
CookiesCsrf == {i \in DOMAIN cookieJar : cookieJar[i].nombre = NombreCookieCsrf}

PrimeraCookieCsrf == CHOOSE i \in CookiesCsrf : \A j \in CookiesCsrf : i <= j

\* C10 (as stated): the call returns the field's value when the field is
\* present, otherwise the meta content when the meta tag is present,
\* otherwise the value of the cookie named exactly csrftoken, and null when
\* there is no field, meta tag or such cookie.
C10_FuenteDelToken ==
    tokenObtenido # SinLlamar =>
        tokenObtenido =
            IF campoCsrf.existe THEN campoCsrf.valor
            ELSE IF metaCsrf.existe THEN metaCsrf.valor
            ELSE IF CookiesCsrf # {}
                 THEN DecodeURIComponent(cookieJar[PrimeraCookieCsrf].valor)
            ELSE JsNull

\* C10 (amended): the call returns the field's value when the field is present
\* with a non-empty value, otherwise the meta content when the meta tag is
\* present with a non-empty content, otherwise the URI-decoded value of the
\* first cookie named exactly csrftoken, and null when there is no such cookie.
C10_FuenteDelTokenNoVacia ==
    tokenObtenido # SinLlamar =>
        tokenObtenido =
            IF campoCsrf.existe /\ campoCsrf.valor # <<>> THEN campoCsrf.valor
            ELSE IF metaCsrf.existe /\ metaCsrf.valor # <<>> THEN metaCsrf.valor
            ELSE IF CookiesCsrf # {}
                 THEN DecodeURIComponent(cookieJar[PrimeraCookieCsrf].valor)
            ELSE JsNull

\* The field is present but empty, the meta tag is absent, and the token came
\* from the csrftoken cookie that follows a cookie whose name only starts
\* with csrftoken.
C10_Witness ==
    /\ campoCsrf = Elemento(<<>>) /\ ~metaCsrf.existe
    /\ Len(cookieJar) = 2
    /\ cookieJar[1].nombre = NombreCookieCsrf \o <<"2">>
    /\ cookieJar[2].nombre = NombreCookieCsrf
    /\ tokenObtenido = <<"a", "b">>

(***************************************************************************)
(* Claims about the network helpers                                        *)
(***************************************************************************)
\* C11: every request issued by post, put, delete and submitForm carries the
\* header X-CSRFToken, and its value is what getCSRFToken() returns on the
\* page at the call (as fetch sends it); every request with a mutating method
\* comes from one of these helpers.
C11_CabeceraCsrfEnMutantes ==
    \A i \in 1..Len(llamadas) :
        /\ llamadas[i].helper \in HelpersQueMutan =>
             /\ "X-CSRFToken" \in DOMAIN llamadas[i].cabeceras
             /\ llamadas[i].cabeceras["X-CSRFToken"] =
                  ByteString(getCSRFToken(campoCsrf, metaCsrf, DocumentCookie(cookieJar)))
        /\ llamadas[i].metodo # "GET" => "X-CSRFToken" \in DOMAIN llamadas[i].cabeceras

\* A delete and a submitForm issued from a page whose token is in the hidden
\* field, both carrying it.
C11_Witness ==
    /\ Len(llamadas) = 2
    /\ llamadas[1].helper = "delete" /\ llamadas[2].helper = "submitForm"
    /\ llamadas[1].cabeceras["X-CSRFToken"] = <<"F", "1">>
    /\ llamadas[2].cabeceras["X-CSRFToken"] = <<"F", "1">>

\* C12: a helper's promise rejects when the transport failed or the status
\* was no success, and it resolves only for a success status, with the
\* response body.
C12_FalloRechaza ==
    \A i \in 1..Len(llamadas) :
        /\ llamadas[i].respuesta \in {"transporte", "status"} =>
             llamadas[i].estado = "rechazada"
        /\ llamadas[i].estado = "resuelta" =>
             /\ llamadas[i].respuesta \in {"exito", "exitoNoJson"}
             /\ llamadas[i].valor = "cuerpo"

\* A put rejected for its status and a loadContent resolved with its body.
C12_Witness ==
    /\ Len(llamadas) = 2
    /\ llamadas[1].helper = "put" /\ llamadas[1].respuesta = "status"
    /\ llamadas[1].estado = "rechazada"
    /\ llamadas[2].helper = "loadContent" /\ llamadas[2].estado = "resuelta"

(***************************************************************************)
(* Claims about the constraint form                                        *)
(***************************************************************************)
\* Positions of the cards that have a type selected.
Tipadas(cards) == {i \in 1..Len(cards) : cards[i].tipo # ""}

\* The k-th smallest element of a set of positions.
Kesima(S, k) == CHOOSE i \in S : Cardinality({j \in S : j < i}) = k - 1

\* salida has one entry per card with a type, in card order, each with the
\* type and the switch of its card.
UnaPorTipada(salida, cards) ==
    /\ Len(salida) = Cardinality(Tipadas(cards))
    /\ \A k \in 1..Len(salida) :
         LET card == cards[Kesima(Tipadas(cards), k)] IN
           /\ salida[k].nombre = card.tipo
           /\ salida[k].activa = card.activa

\* C2: when no hard card has a type selected, validarRestriccionesFormulario
\* returns false and leaves both hidden fields as they were (and the form is
\* not submitted).
C2_SinDurasNoValida ==
    [][ (retValidar' # "ninguno" /\ Tipadas(cardsDuras) = {}) =>
            /\ retValidar' = "false"
            /\ camposOcultos' = camposOcultos
            /\ ~enviado' ]_vars

\* Refused with a typed soft card and a hard card whose type was unselected
\* again, the hidden fields keeping their earlier content.
C2_Witness ==
    /\ retValidar = "false"
    /\ camposOcultos = CamposDeAntes
    /\ Tipadas(cardsBlandas) # {}
    /\ \E c \in 1..Len(cardsDuras) : cardsDuras[c].tipo = "" /\ cardsDuras[c].params # <<>>

\* C3: serializarRestricciones returns duras with exactly one entry per hard
\* card with a type and blandas with exactly one entry per soft card with a
\* type, in card order; cards without a type are omitted.
C3_UnaEntradaPorCardConTipo ==
    retSerializar.hay =>
        /\ UnaPorTipada(retSerializar.duras, cardsDuras)
        /\ UnaPorTipada(retSerializar.blandas, cardsBlandas)

\* An untyped hard card followed by a typed one, no soft card: duras has one
\* entry and blandas none.
C3_Witness ==
    /\ retSerializar.hay
    /\ Len(cardsDuras) = 2 /\ cardsDuras[1].tipo = "" /\ cardsDuras[2].tipo # ""
    /\ cardsBlandas = <<>>
    /\ Len(retSerializar.duras) = 1 /\ retSerializar.blandas = <<>>

\* C4: when validarRestriccionesFormulario returns true, restricciones_duras_json
\* holds the JSON of the non-empty serialized hard array and
\* restricciones_blandas_json the JSON of the serialized soft array, both of
\* the cards as they are at the call.
C4_CamposOcultosAlValidar ==
    retValidar = "true" =>
        LET ser == serializarRestricciones(cardsDuras, cardsBlandas) IN
          /\ camposOcultos.duras = Escrito(JsonDuras(ser.duras))
          /\ camposOcultos.blandas = Escrito(JsonBlandas(ser.blandas))
          /\ Len(camposOcultos.duras.json) = Cardinality(Tipadas(cardsDuras))
          /\ Len(camposOcultos.duras.json) >= 1
          /\ Len(camposOcultos.blandas.json) = Cardinality(Tipadas(cardsBlandas))

\* Accepted with two typed hard cards, the first with its parameter, and one
\* typed soft card.
C4_Witness ==
    /\ retValidar = "true"
    /\ Len(camposOcultos.duras.json) = 2
    /\ camposOcultos.duras.json[1].nombre = "descanso_minimo"
    /\ DOMAIN camposOcultos.duras.json[1].parametros # {}
    /\ Len(camposOcultos.blandas.json) = 1
    /\ Len(cardsBlandas) = 2

\* C5: the slider and the numeric input of every soft card hold the same
\* value, after any sequence of events.
C5_PesoSincronizado ==
    \A c \in 1..Len(cardsBlandas) : cardsBlandas[c].peso = cardsBlandas[c].pesoRange

\* C6: every peso serializarRestricciones emits lies in [0, 10].
C6_PesoEnRango ==
    retSerializar.hay =>
        \A k \in 1..Len(retSerializar.blandas) :
            /\ ~retSerializar.blandas[k].peso.nan
            /\ retSerializar.blandas[k].peso.n >= pesoMin
            /\ retSerializar.blandas[k].peso.n <= pesoMax

\* C13: every nombre serializarRestricciones emits is a key of the catalog:
\* of restriccionesDurasDefiniciones in duras, of
\* restriccionesBlandasDefiniciones in blandas.
C13_NombreDelCatalogo ==
    retSerializar.hay =>
        /\ \A k \in 1..Len(retSerializar.duras) :
             retSerializar.duras[k].nombre \in DOMAIN restriccionesDurasDefiniciones
        /\ \A k \in 1..Len(retSerializar.blandas) :
             retSerializar.blandas[k].nombre \in DOMAIN restriccionesBlandasDefiniciones

\* Serialized with a typed and an untyped card of each kind, the two hard
\* cards carrying the same data-index after a deletion.
C13_Witness ==
    /\ retSerializar.hay
    /\ Len(retSerializar.duras) = 1 /\ Len(retSerializar.blandas) = 1
    /\ Len(cardsDuras) = 2 /\ Len(cardsBlandas) = 2
    /\ cardsDuras[1].index = cardsDuras[2].index

(***************************************************************************)
(* Claims about the sidebar                                                *)
(***************************************************************************)
\* C14: once sidebarCollapsed has been saved, it is 'true' exactly when the
\* sidebar is collapsed.
C14_GuardadoIgualAColapsado ==
    sbGuardado.hay => ((sbGuardado.valor = "true") <=> sbColapsado)

(***************************************************************************)
(* Claims about wait-for-it                                                *)
(***************************************************************************)
\* C15: with a positive timeout N, wait-for-it is no longer waiting once more
\* than N seconds have gone by without a connection.
C15_EsperaAcotada ==
    (TIMEOUT > 0 /\ wFase = "esperando") => wSegundos <= TIMEOUT

\* C16: the command after -- is executed only after a connection test of
\* wait_for has succeeded, the service being reachable.
C16_ComandoTrasConexion ==
    wFase = "ejecutando" => (wExito /\ servicio = "arriba")

\* The command executed after two seconds of failed connection tests, with a
\* timeout of one second.
C16_Witness ==
    /\ wFase = "ejecutando" /\ wSegundos = 2 /\ TIMEOUT = 1 /\ wExito

(***************************************************************************)
(* More claims about polling and the constraint form                       *)
(***************************************************************************)
\* C17: onComplete is invoked at most once per monitorizarEjecucion call,
\* also when several status requests are in flight.
C17_OnCompleteUnaVez ==
    onCompleteCalls <= 1

\* The catalog parameter names of a type, as the catalog writes them.
NombresDeParametros(tipo) ==
    {Unir(restriccionesDurasDefiniciones[tipo][k].key) :
        k \in 1..Len(restriccionesDurasDefiniciones[tipo])}

\* C18: for a hard card whose type defines parameters, and whose inputs are
\* those of its type, the emitted parametros has exactly the catalog
\* parameter names of the type as keys, each mapped to the number in its input.
C18_ClavesDelCatalogo ==
    retSerializar.hay =>
        \A k \in 1..Len(retSerializar.duras) :
            LET card == cardsDuras[Kesima(Tipadas(cardsDuras), k)]
                defs == restriccionesDurasDefiniciones[card.tipo]
            IN (Len(defs) > 0 /\ Len(card.params) = Len(defs)) =>
                 /\ DOMAIN retSerializar.duras[k].parametros = NombresDeParametros(card.tipo)
                 /\ \A j \in 1..Len(defs) :
                      retSerializar.duras[k].parametros[Unir(defs[j].key)]
                          = parseFloat(card.params[j].value)

\* Two cards of one kind never carry the same data-index.
IndicesDistintos(cards) ==
    \A i, j \in 1..Len(cards) : i # j => cards[i].index # cards[j].index

\* C19: no two hard cards carry the same data-index, and no two soft cards.
C19_DataIndexUnico ==
    IndicesDistintos(cardsDuras) /\ IndicesDistintos(cardsBlandas)

\* C20: confirming the delete button of a card removes exactly that card and
\* leaves every other card as it was; declining removes no card.
C20_EliminaSoloEsaCard ==
    [][ /\ \A c \in 1..Len(cardsDuras) :
             /\ PulsarEliminarDura(c, TRUE) =>
                  (cardsDuras' = Quitar(cardsDuras, c) /\ cardsBlandas' = cardsBlandas)
             /\ PulsarEliminarDura(c, FALSE) => Len(cardsDuras') = Len(cardsDuras)
        /\ \A c \in 1..Len(cardsBlandas) :
             /\ PulsarEliminarBlanda(c, TRUE) =>
                  (cardsBlandas' = Quitar(cardsBlandas, c) /\ cardsDuras' = cardsDuras)
             /\ PulsarEliminarBlanda(c, FALSE) => Len(cardsBlandas') = Len(cardsBlandas) ]_vars

\* C21: the displayed counter and the length of the restriccionesState array
\* of each kind both equal the number of cards of that kind on the page.
C21_ContadorIgualACards ==
    /\ contadores.duras = Len(cardsDuras)
    /\ restriccionesState.duras = Len(cardsDuras)
    /\ contadores.blandas = Len(cardsBlandas)
    /\ restriccionesState.blandas = Len(cardsBlandas)

\* C22: every parameter input that actualizarParametros rendered for the type
\* of its card carries the catalog's min and max in its min and max
\* attributes (a minimum of 0 included) and the catalog default, which lies
\* within [min, max], as its value.
C22_AtributosDelCatalogo ==
    \A c \in 1..Len(cardsDuras) :
        LET card == cardsDuras[c] IN
        (card.tipo # "" /\ Len(card.params) > 0) =>
            LET defs == restriccionesDurasDefiniciones[card.tipo] IN
            /\ Len(card.params) = Len(defs)
            /\ \A j \in 1..Len(defs) :
                 /\ card.params[j].min = Txt(defs[j].min)
                 /\ card.params[j].max = Txt(defs[j].max)
                 /\ card.params[j].value = Txt(defs[j].default)
                 /\ defs[j].min <= defs[j].default
                 /\ defs[j].default <= defs[j].max

\* C23: the Activa switch decides only the value of the activa field, never
\* whether the card is serialized: serializarRestricciones and the hidden
\* fields written by validarRestriccionesFormulario hold one entry per card
\* with a type, switched on or off, with activa equal to the checked state of
\* that card's switch, and the form is refused only when no hard card has a
\* type (a switched-off hard constraint counts as present).
C23_ActivaSoloEsUnCampo ==
    /\ retSerializar.hay =>
         /\ UnaPorTipada(retSerializar.duras, cardsDuras)
         /\ UnaPorTipada(retSerializar.blandas, cardsBlandas)
    /\ retValidar = "true" =>
         /\ UnaPorTipada(camposOcultos.duras.json, cardsDuras)
         /\ UnaPorTipada(camposOcultos.blandas.json, cardsBlandas)
    /\ retValidar = "false" => Tipadas(cardsDuras) = {}

\* The form was accepted although its only typed hard card is switched off,
\* and the hidden field holds that card with activa false.
C23_Witness ==
    /\ retValidar = "true"
    /\ Cardinality(Tipadas(cardsDuras)) = 1
    /\ \A c \in 1..Len(cardsDuras) : ~cardsDuras[c].activa
    /\ Len(camposOcultos.duras.json) = 1
    /\ ~camposOcultos.duras.json[1].activa

\* C24: onComplete is invoked only in the step that handles a response whose
\* estado is COMPLETADA or ERROR; and once the 120 attempts have elapsed and
\* every response was non-terminal, the timer is cancelled, onComplete has
\* not been invoked, and no later step changes either.
C24_TopeSinOnComplete ==
    [][ /\ (onCompleteCalls' # onCompleteCalls =>
              /\ respTerminal' = respTerminal + 1
              /\ onCompleteCalls' = onCompleteCalls + 1)
        /\ ((/\ attempts' >= maxAttempts
             /\ inFlight' = 0
             /\ respTerminal' = 0
             /\ respFailed' = 0) =>
              /\ pollInterval' = "cleared"
              /\ onCompleteCalls' = 0)
        /\ ((/\ attempts >= maxAttempts
             /\ inFlight = 0
             /\ respTerminal = 0
             /\ respFailed = 0) =>
              /\ pollInterval' = "cleared"
              /\ onCompleteCalls' = 0
              /\ requests' = requests) ]_vars

\* 120 attempts, each answered with a non-terminal estado before the next
\* tick: 120 onUpdate calls, no onComplete, the timer cancelled.
C24_Witness ==
    /\ attempts = maxAttempts /\ requests = maxAttempts
    /\ respNoTerminal = maxAttempts /\ respTerminal = 0 /\ respFailed = 0
    /\ inFlight = 0 /\ ~overlapped
    /\ onUpdateCalls = maxAttempts /\ onCompleteCalls = 0
    /\ pollInterval = "cleared"

(***************************************************************************)
(* Claims about the container entrypoint                                   *)
(***************************************************************************)
\* C25: when PostgreSQL and Redis are reachable and migrate, collectstatic
\* and the superuser step succeed, the entrypoint eventually execs the
\* application command passed as its arguments.
C25_LlegaAEjecutar ==
    (/\ epFase = "corriendo"
     /\ epEntorno.db /\ epEntorno.redis
     /\ epEntorno.migrate /\ epEntorno.collectstatic /\ epEntorno.superusuario)
        ~> (epFase = "ejecutando")

\* The step has been started.
Iniciado(paso) ==
    \E i \in 1..Len(epIniciados) : epIniciados[i] = paso

\* The first n steps that finished with status 0 are the first n of the
\* script.
HechosHasta(n) ==
    Len(epHechos) >= n /\ SubSeq(epHechos, 1, n) = SubSeq(Guion, 1, n)

MesAbsoluto(m) ==
    m.anio * 12 + m.mes

\* C27: nextMonth advances the displayed month by exactly one calendar month
\* and previousMonth moves it back by exactly one, whatever the current
\* date (any day of month 1..31).
C27_UnMesExacto ==
    [][ /\ (calUltima' = "nextMonth" /\ calNavegaciones' # calNavegaciones) =>
              MesAbsoluto(calMostrado') = MesAbsoluto(calMostrado) + 1
        /\ (calUltima' = "previousMonth" /\ calNavegaciones' # calNavegaciones) =>
              MesAbsoluto(calMostrado') = MesAbsoluto(calMostrado) - 1 ]_vars

\* C28: func runs only when wait ms have passed since the most recent call
\* of the wrapper, with the arguments of that call, not a second time for
\* it, and with no call left pending; and once the calls have stopped func
\* has run exactly once since the most recent one.
C28_UnaVezPorSilencio ==
    /\ [][ ultimaEjecucion' # ultimaEjecucion =>
             /\ ultimaLlamada.hay
             /\ Ahora >= ultimaLlamada.hora + wait
             /\ ultimaEjecucion'.args = ultimaLlamada.args
             /\ corridas = 0
             /\ timers' = {} ]_vars
    /\ <>[](ultimaLlamada.hay => corridas = 1)

\* Two calls less than wait apart, then silence: func ran once, for the
\* second call, wait ms or more after it.
C28_Witness ==
    /\ sigId = 3
    /\ ultimaEjecucion.hay /\ ultimaEjecucion.n = 1 /\ ultimaEjecucion.id = 2
    /\ ultimaEjecucion.args = ultimaLlamada.args
    /\ ultimaEjecucion.hora >= ultimaLlamada.hora + wait
    /\ corridas = 1 /\ timers = {}

====
